---- MODULE Spec2Model ----
(***************************************************************************)
(* Model of the two puzzle solvers of the repository:                      *)
(*   src/day19/day19.py  beacon/scanner alignment (Spec, FairSpec,         *)
(*                       SpecHash)                                         *)
(*   src/day22/day22.py  reactor reboot, coordinate compression (SpecCubes)*)
(*                                                                         *)
(* Conventions.  Scan ids and lookup ids are 0-based as in the code; a     *)
(* Python list l is a TLA+ sequence, so l[i] of the code is l[i + 1] here. *)
(* A beacon is a homogeneous row <<x, y, z, 1>>, a transform a 4x4 matrix  *)
(* given as a sequence of 4 rows; points are row vectors (b . T).          *)
(***************************************************************************)
EXTENDS Integers, Sequences, FiniteSets, TLC

VARIABLES
    \* ---- day19 ----
    scans,                \* read_scans(file): list of scans
    min_overlap,          \* the overlap threshold in force (12 in the code)
    scan_lookup_beacons,  \* per scan, per reference beacon: list of distances
    scan_lookup_sets,     \* per scan, per reference beacon: set of distances
    scdf,                 \* sorted table of overlap rows
    connections,          \* query scan id -> list of overlapping scan ids
    known_transforms,     \* scan id -> 4x4 transform into the frame of scan 0
    next_to_match,        \* deque of (source_id, target_id)
    solved_from,          \* history: how each stored transform was solved
    output,               \* the values day19 has yielded so far
    error,                \* the exception that ended the run, or "none"
    pc,                   \* position in day19
    \* ---- beacon_hash on its own (SpecHash) ----
    hscan,                \* a scan S
    hmoved,               \* the same scan seen by a rotated, translated scanner
    hprint,               \* build_lookup(S), or <<>> before it ran
    hprint_moved,         \* build_lookup(moved S), or <<>>
    \* ---- day22 (SpecCubes) ----
    commands,             \* list of on/off
    coords_list,          \* list of <<x, y, z>>, each <<begin, end + 1>>
    cubes,                \* result of count_active_cubes, or -1 before it ran
    cpc                   \* position in day22

vars == <<scans, min_overlap, scan_lookup_beacons, scan_lookup_sets, scdf,
          connections, known_transforms, next_to_match, solved_from, output,
          error, pc, hscan, hmoved, hprint, hprint_moved, commands,
          coords_list, cubes, cpc>>

day19vars == <<scans, min_overlap, scan_lookup_beacons, scan_lookup_sets, scdf,
               connections, known_transforms, next_to_match, solved_from,
               output, error, pc>>

hashvars == <<hscan, hmoved, hprint, hprint_moved>>

cubevars == <<commands, coords_list, cubes, cpc>>

----------------------------------------------------------------------------
\* Generic helpers

Range(f) == {f[i] : i \in DOMAIN f}

Min(S) == CHOOSE x \in S : \A y \in S : x <= y

Max(S) == CHOOSE x \in S : \A y \in S : x >= y

RECURSIVE SumSeq(_)
SumSeq(s) == IF s = <<>> THEN 0 ELSE Head(s) + SumSeq(Tail(s))

\* The elements of a set of integers in ascending order
RECURSIVE Ascending(_)
Ascending(S) ==
    IF S = {} THEN <<>> ELSE LET m == Min(S) IN <<m>> \o Ascending(S \ {m})

----------------------------------------------------------------------------
\* numpy int16 arithmetic (read_scans reads the beacons as np.int16)

\* two's complement wrap of an int16 result
Wrap16(x) == ((x + 32768) % 65536) - 32768

\* np.abs on int16: abs(-32768) stays -32768
Abs16(x) == IF x = -32768 THEN x ELSE IF x < 0 THEN -x ELSE x

\* int16 row vector times int16 4x4 matrix (np.dot / @), result int16
VecMat(v, M) ==
    [j \in 1..4 |-> Wrap16(v[1] * M[1][j] + v[2] * M[2][j]
                           + v[3] * M[3][j] + v[4] * M[4][j])]

Identity4 == <<<<1, 0, 0, 0>>, <<0, 1, 0, 0>>, <<0, 0, 1, 0>>, <<0, 0, 0, 1>>>>

----------------------------------------------------------------------------
\* beacon_hash and build_lookup

\* a mutant: the signed coordinate differences are summed without np.abs
beacon_hash_signed(beacon_list, reference_beacon) ==
    [i \in 1..Len(beacon_list) |->
        SumSeq([k \in 1..4 |-> Wrap16(beacon_list[i][k] - reference_beacon[k])])]

\* np.abs(beacon_list - reference_beacon).sum(axis=1): the difference and the
\* absolute value are int16, the sum is accumulated in a wide integer
beacon_hash(beacon_list, reference_beacon) ==
    [i \in 1..Len(beacon_list) |->
        SumSeq([k \in 1..4 |->
            Abs16(Wrap16(beacon_list[i][k] - reference_beacon[k]))])]

\* build_lookup returns (lookup_beacons, lookup_sets)
build_lookup_beacons(scan) ==
    [r \in 1..Len(scan) |-> beacon_hash(scan, scan[r])]

\* a mutant: lookup_sets keeps each distance with its position,
\* set(enumerate(bh)), so that repeated distances are not merged
build_lookup_sets_positions(scan) ==
    [r \in 1..Len(scan) |->
        {<<i, beacon_hash(scan, scan[r])[i]>> : i \in 1..Len(scan)}]

build_lookup_sets(scan) ==
    [r \in 1..Len(scan) |-> Range(beacon_hash(scan, scan[r]))]

----------------------------------------------------------------------------
\* np.linalg.solve on integer inputs, in exact rational arithmetic

Det3(a, b, c) ==
      a[1] * (b[2] * c[3] - b[3] * c[2])
    - a[2] * (b[1] * c[3] - b[3] * c[1])
    + a[3] * (b[1] * c[2] - b[2] * c[1])

\* row r of A without column j
DropCol(row, j) == [k \in 1..3 |-> IF k < j THEN row[k] ELSE row[k + 1]]

\* the 3x3 minor of the 4x4 matrix A without row i and column j
Minor(A, i, j) ==
    LET rows == [k \in 1..3 |-> IF k < i THEN A[k] ELSE A[k + 1]]
    IN  Det3(DropCol(rows[1], j), DropCol(rows[2], j), DropCol(rows[3], j))

Sign(i, j) == IF (i + j) % 2 = 0 THEN 1 ELSE -1

Det4(A) ==
    A[1][1] * Minor(A, 1, 1) - A[1][2] * Minor(A, 1, 2)
    + A[1][3] * Minor(A, 1, 3) - A[1][4] * Minor(A, 1, 4)

\* adj(A)[i][j] = cofactor(A)[j][i];  inverse(A) = adj(A) / det(A)
Adjugate(A) ==
    [i \in 1..4 |-> [j \in 1..4 |-> Sign(i, j) * Minor(A, j, i)]]

MatMul(A, B) ==
    [i \in 1..4 |-> [j \in 1..4 |->
        A[i][1] * B[1][j] + A[i][2] * B[2][j]
        + A[i][3] * B[3][j] + A[i][4] * B[4][j]]]

\* The exact solution X of A X = B as numerators over one positive
\* denominator: X[i][j] = num[i][j] / den.  A must be non-singular.
SolveExact(A, B) ==
    LET d == Det4(A)
        N == MatMul(Adjugate(A), B)
    IN  IF d > 0 THEN [num |-> N, den |-> d]
        ELSE [num |-> [i \in 1..4 |-> [j \in 1..4 |-> -N[i][j]]], den |-> -d]

----------------------------------------------------------------------------
\* find_scan_overlaps

\* the overlap threshold of the code (the literal 12 of find_scan_overlaps)
MinOverlap == 12

\* f[lo] \o f[lo + 1] \o ... \o f[hi]: what a for loop that appends collects
RECURSIVE Concat(_, _, _)
Concat(f, lo, hi) == IF lo > hi THEN <<>> ELSE f[lo] \o Concat(f, lo + 1, hi)

\* score = len(qs_lookup & match_lookup)
score_of(qs_lookup, match_lookup) == Cardinality(qs_lookup \cap match_lookup)

\* the four nested loops, appending a row for every score >= threshold
scores_list(lookup_sets, threshold) ==
    LET n == Len(lookup_sets)
        row(q, ql, m, ml) ==
            LET score == score_of(lookup_sets[q + 1][ql + 1],
                                  lookup_sets[m + 1][ml + 1])
            IN  IF score >= threshold
                THEN << [query_scan_id |-> q, qs_lookup_id |-> ql,
                         match_scan_id |-> m, match_lookup_id |-> ml,
                         score |-> score] >>
                ELSE <<>>
        for_match_lookups(q, ql, m) ==
            Concat([ml \in 0..(Len(lookup_sets[m + 1]) - 1) |-> row(q, ql, m, ml)],
                   0, Len(lookup_sets[m + 1]) - 1)
        for_match_scans(q, ql) ==
            Concat([m \in 0..(n - 1) |->
                       IF m = q THEN <<>> ELSE for_match_lookups(q, ql, m)],
                   0, n - 1)
        for_qs_lookups(q) ==
            Concat([ql \in 0..(Len(lookup_sets[q + 1]) - 1) |-> for_match_scans(q, ql)],
                   0, Len(lookup_sets[q + 1]) - 1)
    IN  Concat([q \in 0..(n - 1) |-> for_qs_lookups(q)], 0, n - 1)

\* sorted(scores, key=lambda x: x[3], reverse=True): a stable sort, rows of
\* equal match_lookup_id keep their order
sorted_scores(scores) ==
    IF scores = <<>> THEN <<>>
    ELSE LET top == Max({scores[i].match_lookup_id : i \in 1..Len(scores)})
         IN  Concat([k \in 0..top |->
                        SelectSeq(scores, LAMBDA r : r.match_lookup_id = top - k)],
                    0, top)

\* Series.unique(): the values in order of first appearance
RECURSIVE Unique(_)
Unique(s) ==
    IF s = <<>> THEN <<>>
    ELSE LET init == Unique(SubSeq(s, 1, Len(s) - 1))
             last == s[Len(s)]
         IN  IF last \in Range(init) THEN init ELSE Append(init, last)

\* scdf[scdf.score >= 12].groupby("query_scan_id").match_scan_id.unique()
group_connections(table, threshold) ==
    LET kept == SelectSeq(table, LAMBDA r : r.score >= threshold)
        queries == {kept[i].query_scan_id : i \in 1..Len(kept)}
        col(rows) == [i \in 1..Len(rows) |-> rows[i].match_scan_id]
    IN  [q \in queries |->
            Unique(col(SelectSeq(kept, LAMBDA r : r.query_scan_id = q)))]

----------------------------------------------------------------------------
\* find_transform

\* number of positions of the list l that hold d (len(np.nonzero(l == d)[0]))
Count(l, d) == Cardinality({i \in 1..Len(l) : l[i] = d})

\* the position (1-based) of the only d in l
IndexOf(l, d) == CHOOSE i \in 1..Len(l) : l[i] = d

\* a mutant: hashes that repeat are not dropped
unique_matches_keep_all(source_lookups, target_lookups) ==
    Range(source_lookups) \cap Range(target_lookups)

\* the hashes of set(source_lookups) & set(target_lookups) that occur exactly
\* once in each list; the others are dropped
unique_matches(source_lookups, target_lookups) ==
    {d \in Range(source_lookups) \cap Range(target_lookups) :
        Count(source_lookups, d) = 1 /\ Count(target_lookups, d) = 1}

\* The possible values of source_matches[:4] / target_matches[:4], each as a
\* set of 4 hashes.  The matches are listed in the iteration order of a
\* Python set, which the language leaves unspecified: any 4 of them may come
\* first.  The solution of the linear system does not depend on the order of
\* its 4 equations.
first_four(matched) == {sub \in SUBSET matched : Cardinality(sub) = 4}

\* floor(num / den) for den > 0
Floor(num, den) == num \div den

\* the entries of the exact solution that lie exactly half way between two
\* integers: the floating-point solve may land on either side of them
HalfWay(X) ==
    {p \in (1..4) \X (1..4) : 2 * (X.num[p[1]][p[2]] % X.den) = X.den}

\* np.rint(x) of num/den; for a half-way entry `up` decides the side
Rint(num, den, up) ==
    LET r == num % den
    IN  IF 2 * r > den \/ (2 * r = den /\ up)
        THEN Floor(num, den) + 1 ELSE Floor(num, den)

\* np.rint(transform).astype(np.int16).  The cast of a value outside int16 is
\* not defined by numpy; it is written here as the wrap of the common builds
\* (TransformsFitInt16 shows that no reachable state depends on this).
rint_matrix(X, ups) ==
    [i \in 1..4 |-> [j \in 1..4 |->
        Wrap16(Rint(X.num[i][j], X.den, <<i, j>> \in ups))]]

IsExact(X) == \A i \in 1..4 : \A j \in 1..4 : X.num[i][j] % X.den = 0

\* np.linalg.solve needs a square system: 4 rows of 4 columns
enough_matches(matched) == Cardinality(matched) >= 4

\* The set of results find_transform can produce:
\*   [kind |-> "ok", transform, fits, exact, nmatches]  a returned transform;
\*       fits: the transform maps each of the 4 target beacons it was solved
\*             from onto its source beacon in the frame of scan 0
\*       exact: the solution of the system was integral before np.rint
\*       nmatches: the number of unique matches
\*   [kind |-> "ValueError"]    np.dot of an empty match list
\*   [kind |-> "LinAlgError"]   np.linalg.solve on a non-square or singular
\*                              matrix
find_transform(source_transform, source_scan, target_scan, source_lookups, target_lookups) ==
    LET matched == unique_matches(source_lookups, target_lookups)
        src(d) == source_scan[IndexOf(source_lookups, d)]
        tgt(d) == target_scan[IndexOf(target_lookups, d)]
        \* source_matches_ref = np.dot(source_matches, source_transform)
        src_ref(d) == VecMat(src(d), source_transform)
        results(sub) ==
            LET order == Ascending(sub)
                A == [k \in 1..Len(order) |-> tgt(order[k])]
                B == [k \in 1..Len(order) |-> src_ref(order[k])]
            IN  IF Det4(A) = 0
                THEN {[kind |-> "LinAlgError"]}
                ELSE LET X == SolveExact(A, B)
                     IN  {[kind |-> "ok",
                           transform |-> rint_matrix(X, ups),
                           fits |-> \A k \in 1..Len(order) :
                                       VecMat(A[k], rint_matrix(X, ups)) = B[k],
                           exact |-> IsExact(X),
                           nmatches |-> Cardinality(matched)] :
                          ups \in SUBSET HalfWay(X)}
    IN  IF matched = {} THEN {[kind |-> "ValueError"]}
        ELSE IF ~enough_matches(matched) THEN {[kind |-> "LinAlgError"]}
        ELSE UNION {results(sub) : sub \in first_four(matched)}

----------------------------------------------------------------------------
\* Inputs of day19: scans of a small world of beacons

\* 15 beacons in general position: from each of them the Manhattan distances
\* to the other 14 are pairwise different
World ==
    << <<-10, 8, 0>>, <<13, -11, 5>>, <<13, -10, -12>>, <<6, -12, -15>>,
       <<-8, -11, 8>>, <<5, 0, -7>>, <<-2, -13, -11>>, <<-15, -7, 14>>,
       <<0, 13, 11>>, <<-6, 14, 5>>, <<-1, -11, 8>>, <<12, -3, -5>>,
       <<-13, 9, 1>>, <<2, 15, -14>>, <<12, -15, 9>> >>

Permutations3 == {p \in [1..3 -> 1..3] : \A i, j \in 1..3 : p[i] = p[j] => i = j}

\* the 24 orientations of a scanner: signed permutation matrices of determinant 1
Rotations ==
    {M \in {[i \in 1..3 |-> [j \in 1..3 |-> IF p[i] = j THEN sg[i] ELSE 0]] :
               p \in Permutations3, sg \in [1..3 -> {-1, 1}]} :
        Det3(M[1], M[2], M[3]) = 1}

\* the beacon at global position p as seen by a scanner at position t with
\* orientation R:  b = (p - t) . R^T,  so that  b . R + t = p
Seen(p, R, t) ==
    [j \in 1..4 |->
        IF j = 4 THEN 1
        ELSE (p[1] - t[1]) * R[j][1] + (p[2] - t[2]) * R[j][2]
             + (p[3] - t[3]) * R[j][3]]

Interval(lo, hi) == [i \in 1..(hi - lo + 1) |-> lo + i - 1]

\* the mirror image of World[i] in World[about]: as far from World[about] as
\* World[i] is, so that this distance is not unique in a scan that holds both
Mirror(about, i) == [k \in 1..3 |-> 2 * World[about][k] - World[i][k]]

\* the scan, by such a scanner, of the beacons World[idx[1]], World[idx[2]],
\* ... followed by the mirror images in World[about] of World[lo..hi]
ScanOf(idx, about, lo, hi, R, t) ==
    [i \in 1..Len(idx) |-> Seen(World[idx[i]], R, t)]
    \o [i \in 1..(hi - lo + 1) |-> Seen(Mirror(about, lo + i - 1), R, t)]

\* a scan without mirror images
Plain(idx, R, t) == ScanOf(idx, 1, 1, 0, R, t)

Rot0 == <<<<1, 0, 0>>, <<0, 1, 0>>, <<0, 0, 1>>>>

Rot2 == <<<<-1, 0, 0>>, <<0, 0, -1>>, <<0, -1, 0>>>>

RotZ == <<<<-1, 0, 0>>, <<0, -1, 0>>, <<0, 0, 1>>>>

RotX == <<<<1, 0, 0>>, <<0, -1, 0>>, <<0, 0, -1>>>>

RotY == <<<<-1, 0, 0>>, <<0, 1, 0>>, <<0, 0, -1>>>>

Rot21 == <<<<0, 0, 1>>, <<0, -1, 0>>, <<1, 0, 0>>>>

Origin == <<0, 0, 0>>

Shift1 == <<5, -3, 2>>

Shift2 == <<-4, 6, 1>>

\* three scans, 0 - 1 - 2: consecutive scans share 12 beacons, scans 0 and 2
\* only 11
Chain(R) ==
    << Plain(Interval(1, 13), Rot0, Origin),
       ScanOf(Interval(2, 14), 13, 2, 7, R, Shift1),
       ScanOf(Interval(3, 15), 14, 3, 8, Rot2, Shift2) >>

\* three scans that all share the beacons 1..12
Triangle(R) ==
    << Plain(Interval(1, 13), Rot0, Origin),
       ScanOf(Append(Interval(1, 12), 14), 12, 1, 6, R, Shift1),
       ScanOf(Append(Interval(1, 12), 15), 12, 1, 6, Rot2, Shift2) >>

\* scan 2 shares at most 10 beacons with the others: not reachable from scan 0
Island(R) ==
    << Plain(Interval(1, 13), Rot0, Origin),
       ScanOf(Interval(2, 14), 13, 2, 7, R, Shift1),
       Plain(Interval(5, 15), Rot2, Shift2) >>

\* scan 0 overlaps no scan; scans 1 and 2 overlap each other
Isolated(R) ==
    << Plain(Interval(1, 12), Rot0, Origin),
       ScanOf(Interval(4, 15), 15, 4, 9, R, Shift1),
       Plain(Interval(4, 15), Rot2, Shift2) >>

\* Scans built around one reference beacon.  Offset(i) leads from World[1]
\* to World[i + 1]; the scans below hold a reference beacon (last) and beacons
\* at the same 11 distances from it as the beacons 2..12 are from World[1].
Offset(i) == [k \in 1..3 |-> World[i + 1][k] - World[1][k]]

Centre == <<1, 2, 3>>

At(v) == <<Centre[1] + v[1], Centre[2] + v[2], Centre[3] + v[3], 1>>

Neg(v) == [k \in 1..3 |-> -v[k]]

Turn(v, R) ==
    [j \in 1..3 |-> v[1] * R[1][j] + v[2] * R[2][j] + v[3] * R[3][j]]

\* the beacons 1..12 shifted, plus the mirror images of the last `mirrored`
\* of them: a mirrored beacon and its image are at the same distance from
\* the reference, so that distance is not unique in this scan
Around(turns, mirrored) ==
    [i \in 1..11 |-> At(Turn(Offset(i), turns[i]))]
    \o [i \in 1..mirrored |-> At(Neg(Offset(11 - mirrored + i)))]
    \o << At(Origin) >>

NoTurns == [i \in 1..11 |-> Rot0]

\* 4 unique distances, 3 of them to beacons that are each turned another way:
\* no rigid transform maps them onto the beacons of scan 0.  The exact
\* solution of the 4 equations has denominators 251 and 5773.
Mismatch ==
    << Plain(Interval(1, 12), Rot0, Origin),
       Around([NoTurns EXCEPT ![1] = RotX, ![2] = RotY, ![3] = RotZ], 8) >>

\* the same with 2 beacons turned; the exact solution has the entries -143/2
\* and 25/2, half way between two integers
MismatchHalf ==
    << Plain(Interval(1, 12), Rot0, Origin),
       Around([NoTurns EXCEPT ![2] = RotZ, ![3] = Rot21], 8) >>

\* a true overlap of 12 beacons of which only 3 have a unique distance
Mirrored ==
    << Plain(Interval(1, 12), Rot0, Origin), Around(NoTurns, 9) >>

\* the toy scenario: 5 beacons, and the same 5 shifted by (5, 5, 5)
Toy ==
    << << <<0, 0, 0, 1>>, <<1, 0, 0, 1>>, <<0, 1, 0, 1>>, <<0, 0, 1, 1>>,
          <<1, 1, 1, 1>> >>,
       << <<5, 5, 5, 1>>, <<6, 5, 5, 1>>, <<5, 6, 5, 1>>, <<5, 5, 6, 1>>,
          <<6, 6, 6, 1>> >> >>

\* a file with one scan
Single == << Plain(Interval(1, 12), Rot0, Origin) >>

\* the inputs: the scans read from the file and the threshold in force
Inputs ==
    {[scans |-> layout, threshold |-> MinOverlap] :
        layout \in UNION {{Chain(R), Triangle(R), Island(R), Isolated(R)} :
                             R \in Rotations}
                   \cup {Mismatch, MismatchHalf, Mirrored, Single}}
    \cup {[scans |-> Toy, threshold |-> 5]}

----------------------------------------------------------------------------
\* day19 and find_scan_transforms

ScanIds == 0..(Len(scans) - 1)

Resolved == DOMAIN known_transforms

Fail(exception) ==
    /\ pc' = "failed"
    /\ error' = exception

Day19Init ==
    /\ \E input \in Inputs :
        /\ scans = input.scans
        /\ min_overlap = input.threshold
    /\ scan_lookup_beacons = <<>>
    /\ scan_lookup_sets = <<>>
    /\ scdf = <<>>
    /\ connections = <<>>
    /\ known_transforms = <<>>
    /\ next_to_match = <<>>
    /\ solved_from = <<>>
    /\ output = <<>>
    /\ error = "none"
    /\ pc = "read"

\* day19: for scan in scans: lb, ls = build_lookup(scan) ...
BuildLookups ==
    /\ pc = "read"
    /\ scan_lookup_beacons' = [i \in 1..Len(scans) |-> build_lookup_beacons(scans[i])]
    /\ scan_lookup_sets' = [i \in 1..Len(scans) |-> build_lookup_sets(scans[i])]
    /\ pc' = "lookups"
    /\ UNCHANGED <<scans, min_overlap, scdf, connections, known_transforms,
                   next_to_match, solved_from, output, error>>

\* day19: scdf, connections = find_scan_overlaps(scans, scan_lookup_sets)
FindScanOverlaps ==
    /\ pc = "lookups"
    /\ LET table == sorted_scores(scores_list(scan_lookup_sets, min_overlap))
       IN  /\ scdf' = table
           /\ connections' = group_connections(table, min_overlap)
    /\ pc' = "overlaps"
    /\ UNCHANGED <<scans, min_overlap, scan_lookup_beacons, scan_lookup_sets,
                   known_transforms, next_to_match, solved_from, output, error>>

\* a mutant: only the first neighbour of a scan is queued
Edges_first(source_id) == << <<source_id, connections[source_id][1]>> >>

\* the edges (source_id, match) for match in connections[source_id]
Edges(source_id) ==
    [i \in 1..Len(connections[source_id]) |-> <<source_id, connections[source_id][i]>>]

\* find_scan_transforms up to its loop: known_transforms = {0: eye(4)} and the
\* neighbours of scan 0 queued.  connections[0] raises when scan 0 has no row.
StartTransforms ==
    /\ pc = "overlaps"
    /\ IF 0 \in DOMAIN connections
       THEN /\ known_transforms' = [s \in {0} |-> Identity4]
            /\ next_to_match' = Edges(0)
            /\ pc' = "traverse"
            /\ error' = error
       ELSE /\ Fail("KeyError")
            /\ UNCHANGED <<known_transforms, next_to_match>>
    /\ UNCHANGED <<scans, min_overlap, scan_lookup_beacons, scan_lookup_sets,
                   scdf, connections, solved_from, output>>

\* a mutant: a scan is resolved again each time an edge to it is dequeued
already_known_never(target_id) == FALSE

\* the test `target_id not in known_transforms`, negated
already_known(target_id) == target_id \in Resolved

\* scdf[(scdf.query_scan_id == source_id) & (scdf.match_scan_id == target_id)].iloc[0]
some_match(source_id, target_id) ==
    SelectSeq(scdf, LAMBDA r : r.query_scan_id = source_id
                               /\ r.match_scan_id = target_id)[1]

\* the call of find_transform in the loop of find_scan_transforms
found_transforms(source_id, target_id) ==
    LET m == some_match(source_id, target_id)
    IN  find_transform(known_transforms[source_id], scans[source_id + 1],
                       scans[target_id + 1],
                       scan_lookup_beacons[source_id + 1][m.qs_lookup_id + 1],
                       scan_lookup_beacons[target_id + 1][m.match_lookup_id + 1])

\* a mutant: the loop also ends when the queue is empty
loop_continues_while_queued ==
    Cardinality(Resolved) < Len(scans) /\ next_to_match # <<>>

\* the loop condition len(known_transforms) < len(scans)
loop_continues == Cardinality(Resolved) < Len(scans)

\* one pass of `while len(known_transforms) < len(scans)`
TraverseStep ==
    /\ pc = "traverse"
    /\ loop_continues
    /\ IF next_to_match = <<>>
       THEN \* popleft from an empty deque
            /\ Fail("IndexError")
            /\ UNCHANGED <<known_transforms, next_to_match, solved_from>>
       ELSE LET source_id == Head(next_to_match)[1]
                target_id == Head(next_to_match)[2]
            IN  IF already_known(target_id)
                THEN /\ next_to_match' = Tail(next_to_match)
                     /\ UNCHANGED <<known_transforms, solved_from, pc, error>>
                ELSE \E found \in found_transforms(source_id, target_id) :
                        IF found.kind = "ok"
                        THEN /\ known_transforms' =
                                  [s \in Resolved \cup {target_id} |->
                                      IF s = target_id THEN found.transform
                                      ELSE known_transforms[s]]
                             /\ solved_from' =
                                  [s \in DOMAIN solved_from \cup {target_id} |->
                                      IF s = target_id
                                      THEN [source |-> source_id,
                                            fits |-> found.fits,
                                            exact |-> found.exact,
                                            nmatches |-> found.nmatches]
                                      ELSE solved_from[s]]
                             /\ IF target_id \in DOMAIN connections
                                THEN /\ next_to_match' =
                                          Tail(next_to_match) \o Edges(target_id)
                                     /\ UNCHANGED <<pc, error>>
                                ELSE /\ next_to_match' = Tail(next_to_match)
                                     /\ Fail("KeyError")
                        ELSE /\ Fail(found.kind)
                             /\ next_to_match' = Tail(next_to_match)
                             /\ UNCHANGED <<known_transforms, solved_from>>
    /\ UNCHANGED <<scans, min_overlap, scan_lookup_beacons, scan_lookup_sets,
                   scdf, connections, output>>

\* the loop ends: return known_transforms
ReturnTransforms ==
    /\ pc = "traverse"
    /\ ~loop_continues
    /\ pc' = "transformed"
    /\ UNCHANGED <<scans, min_overlap, scan_lookup_beacons, scan_lookup_sets,
                   scdf, connections, known_transforms, next_to_match,
                   solved_from, output, error>>

\* beacons @ scan_transforms[scan_id] for every scan, np.unique(..., axis=0)
unique_rows ==
    UNION {{VecMat(scans[id + 1][i], known_transforms[id]) :
               i \in 1..Len(scans[id + 1])} : id \in ScanIds}

\* day19_b: np.abs(a[-1] - b[-1]).sum() over all pairs, int16 differences
day19_b(scan_transforms) ==
    Max({0} \cup
        {SumSeq([k \in 1..4 |->
                    Abs16(Wrap16(scan_transforms[a][4][k] - scan_transforms[b][4][k]))]) :
            a \in DOMAIN scan_transforms, b \in DOMAIN scan_transforms})

\* the loop over the scans up to `yield unique_rows.shape[0]`;
\* scan_transforms[scan_id] raises for a scan without transform
YieldA ==
    /\ pc = "transformed"
    /\ IF ScanIds \subseteq Resolved
       THEN /\ output' = <<Cardinality(unique_rows)>>
            /\ pc' = "yielded_a"
            /\ error' = error
       ELSE /\ Fail("KeyError")
            /\ output' = output
    /\ UNCHANGED <<scans, min_overlap, scan_lookup_beacons, scan_lookup_sets,
                   scdf, connections, known_transforms, next_to_match,
                   solved_from>>

\* yield day19_b(scan_transforms)
YieldB ==
    /\ pc = "yielded_a"
    /\ output' = Append(output, day19_b(known_transforms))
    /\ pc' = "done"
    /\ UNCHANGED <<scans, min_overlap, scan_lookup_beacons, scan_lookup_sets,
                   scdf, connections, known_transforms, next_to_match,
                   solved_from, error>>

Others == UNCHANGED <<hashvars, cubevars>>

HashIdle == hscan = <<>> /\ hmoved = <<>> /\ hprint = <<>> /\ hprint_moved = <<>>

CubesIdle == commands = <<>> /\ coords_list = <<>> /\ cubes = -1 /\ cpc = "idle"

Init == Day19Init /\ HashIdle /\ CubesIdle

Next ==
    \/ BuildLookups /\ Others
    \/ FindScanOverlaps /\ Others
    \/ StartTransforms /\ Others
    \/ TraverseStep /\ Others
    \/ ReturnTransforms /\ Others
    \/ YieldA /\ Others
    \/ YieldB /\ Others

Spec == Init /\ [][Next]_vars

\* day19 has not ended: each action is guarded by one of these positions and
\* every handler has an outcome, so Next is enabled exactly in these states
Running == pc \in {"read", "lookups", "overlaps", "traverse", "transformed",
                  "yielded_a"}

\* day19 is one sequential run, so a step that can be taken is taken: weak
\* fairness of Next.  Every Next step changes vars and Next is enabled exactly
\* while Running, so WF_vars(Next), which is
\* []<>(~ENABLED <<Next>>_vars \/ <<Next>>_vars), is written without ENABLED.
FairSpec == Spec /\ ([]<>(~Running) \/ []<><<TRUE>>_vars)

----------------------------------------------------------------------------
\* beacon_hash / build_lookup on their own (SpecHash)

\* the largest number of beacons of a scan
MaxBeacons == 2

\* beacon positions, some far enough apart for the int16 difference to wrap
HashPoints ==
    {<<0, 0, 0>>, <<1, 2, 3>>, <<-5, 4, 0>>, <<20000, -20000, 7>>,
     <<-20000, 20000, 20000>>, <<32760, -32760, 0>>}

HashShifts == {<<0, 0, 0>>, <<3, -2, 1>>, <<-7, 0, 5>>}

\* the beacon p turned by R and moved by t, as a homogeneous row
Moved(p, R, t) ==
    [j \in 1..4 |->
        IF j = 4 THEN 1
        ELSE p[1] * R[1][j] + p[2] * R[2][j] + p[3] * R[3][j] + t[j]]

\* read_scans keeps what np.int16 holds
FitsInt16(scan) ==
    \A i \in 1..Len(scan) : \A k \in 1..4 : scan[i][k] \in -32768..32767

Day19Idle ==
    /\ scans = <<>>
    /\ min_overlap = MinOverlap
    /\ scan_lookup_beacons = <<>>
    /\ scan_lookup_sets = <<>>
    /\ scdf = <<>>
    /\ connections = <<>>
    /\ known_transforms = <<>>
    /\ next_to_match = <<>>
    /\ solved_from = <<>>
    /\ output = <<>>
    /\ error = "none"
    /\ pc = "idle"

HashInit ==
    \E n \in 1..MaxBeacons :
        \E S \in [1..n -> HashPoints], R \in Rotations, t \in HashShifts :
            /\ hscan = [i \in 1..n |-> <<S[i][1], S[i][2], S[i][3], 1>>]
            /\ hmoved = [i \in 1..n |-> Moved(S[i], R, t)]
            /\ FitsInt16(hmoved)
            /\ hprint = <<>>
            /\ hprint_moved = <<>>

\* build_lookup(scan) of the scan
HashScan ==
    /\ hprint = <<>>
    /\ hprint' = <<build_lookup_beacons(hscan), build_lookup_sets(hscan)>>
    /\ UNCHANGED <<hscan, hmoved, hprint_moved>>

\* build_lookup(scan) of the moved scan
HashMoved ==
    /\ hprint_moved = <<>>
    /\ hprint_moved' = <<build_lookup_beacons(hmoved), build_lookup_sets(hmoved)>>
    /\ UNCHANGED <<hscan, hmoved, hprint>>

InitHash == Day19Idle /\ HashInit /\ CubesIdle

NextHash ==
    \/ HashScan /\ UNCHANGED <<day19vars, cubevars>>
    \/ HashMoved /\ UNCHANGED <<day19vars, cubevars>>

SpecHash == InitHash /\ [][NextHash]_vars

\* C6: the fingerprints of a scan (for every reference beacon, the Manhattan
\* distances to the beacons in scan order, and their set) are those of the
\* same scan turned by any of the 24 rotations and moved by a translation.
C6_FingerprintInvariant ==
    (hprint # <<>> /\ hprint_moved # <<>>) => hprint_moved = hprint

\* two beacons whose difference wraps in int16, seen turned and moved
C6_Witness ==
    /\ hprint # <<>>
    /\ hprint_moved # <<>>
    /\ Len(hscan) = 2
    /\ hscan[1] = <<20000, -20000, 7, 1>>
    /\ hscan[2] = <<-20000, 20000, 20000, 1>>
    /\ hmoved[1] # hscan[1]
    /\ hmoved[2][1] - hmoved[1][1] # hscan[2][1] - hscan[1][1]
    /\ hprint[1][1] = <<0, 71065>>

----------------------------------------------------------------------------
\* Properties of day19

\* the scans reachable from the scans S over the overlap edges
RECURSIVE ReachFrom(_)
ReachFrom(S) ==
    LET N == S \cup UNION {Range(connections[q]) : q \in S \cap DOMAIN connections}
    IN  IF N = S THEN S ELSE ReachFrom(N)

\* find_scan_overlaps has run: connections is the overlap graph
OverlapsKnown == pc \notin {"read", "lookups"}

Connected == ReachFrom({0}) = ScanIds

Returned == pc \in {"transformed", "yielded_a", "done"}

\* find_transform raised: the edge could not be solved
SolveFailed == pc = "failed" /\ error \in {"LinAlgError", "ValueError"}

\* the cast to int16 in find_transform is only reached with values of int16
TransformsFitInt16 ==
    \A n \in Resolved : \A i, j \in 1..4 :
        known_transforms[n][i][j] \in -32768..32767

\* the hashes that occur exactly once among the distances from the reference
\* beacon of the source and exactly once among those of the target, for the
\* overlap row the composer uses for the edge
UniqueCorrespondences(source_id, target_id) ==
    LET m == some_match(source_id, target_id)
        sl == scan_lookup_beacons[source_id + 1][m.qs_lookup_id + 1]
        tl == scan_lookup_beacons[target_id + 1][m.match_lookup_id + 1]
    IN  {d \in Range(sl) \cap Range(tl) :
            Cardinality({i \in 1..Len(sl) : sl[i] = d}) = 1
            /\ Cardinality({i \in 1..Len(tl) : tl[i] = d}) = 1}

\* the edge at the head of the queue leads to a scan that is not yet resolved
HeadIsNew ==
    /\ pc = "traverse"
    /\ Cardinality(Resolved) < Len(scans)
    /\ next_to_match # <<>>
    /\ Head(next_to_match)[2] \notin Resolved

\* the edge at the head of the queue leads to a resolved scan
HeadIsRevisit ==
    /\ pc = "traverse"
    /\ Cardinality(Resolved) < Len(scans)
    /\ next_to_match # <<>>
    /\ Head(next_to_match)[2] \in Resolved

\* C1: for an input of at least two scans whose overlap graph is connected,
\* find_scan_transforms ends: it either returns, and then the map holds a
\* transform for every scan id and for nothing else, or an edge it chose
\* could not be solved.
C1_ConnectedResolvesAll ==
    /\ [](Returned => Resolved = ScanIds)
    /\ (pc = "overlaps" /\ Len(scans) >= 2 /\ Connected)
           ~> ((pc = "transformed" /\ Resolved = ScanIds) \/ SolveFailed)

\* a connected chain 0 - 1 - 2 has been resolved through a revisit of scan 0
C1_Witness ==
    /\ pc = "transformed"
    /\ Len(scans) = 3
    /\ Connected
    /\ connections[0] = <<1>>
    /\ Resolved = {0, 1, 2}

\* C2: when a scan is not reachable from scan 0 the run fails and yields
\* nothing: the queue found empty with scans unresolved raises, and no count
\* and no distance is ever yielded.
C2_DisconnectedFails ==
    /\ [](OverlapsKnown /\ ~Connected => output = <<>> /\ ~Returned)
    /\ (pc = "overlaps" /\ ~Connected) ~> (pc = "failed")
    /\ [][(pc = "traverse" /\ next_to_match = <<>>
           /\ Cardinality(Resolved) < Len(scans))
          => (pc' = "failed" /\ error' = "IndexError")]_vars

\* scan 2 of three was never reached: the queue ran empty
C2_Witness ==
    /\ pc = "failed"
    /\ error = "IndexError"
    /\ Len(scans) = 3
    /\ Resolved = {0, 1}
    /\ output = <<>>

\* C3 as stated: the toy scenario resolves scan 1 at (5, 5, 5) and yields 5
\* beacons and a scanner distance of 15.
C3_ToyResolves ==
    (scans = Toy /\ min_overlap = 5 /\ pc \in {"done", "failed"})
        => /\ pc = "done"
           /\ known_transforms[1][4] = <<5, 5, 5, 1>>
           /\ output = <<5, 15>>

\* C3 amended: in the toy scenario every fingerprint set holds at most 3
\* distances, no overlap row is recorded, and the run ends on connections[0]
\* without a transform for scan 1 and without yielding anything.
C3_ToyFindsNoOverlap ==
    (scans = Toy /\ min_overlap = 5)
        => /\ \A i \in DOMAIN scan_lookup_sets : \A r \in DOMAIN scan_lookup_sets[i] :
                  Cardinality(scan_lookup_sets[i][r]) <= 3
           /\ scdf = <<>>
           /\ known_transforms = <<>>
           /\ output = <<>>
           /\ pc \in {"read", "lookups", "overlaps", "failed"}
           /\ (pc = "failed" => error = "KeyError")

C3_Witness == scans = Toy /\ min_overlap = 5 /\ pc = "failed" /\ error = "KeyError"

\* C4: when the edge to resolve has fewer than 4 unique correspondences the
\* step raises and stores no transform.
C4_TooFewMatchesFail ==
    [][(HeadIsNew
        /\ Cardinality(UniqueCorrespondences(Head(next_to_match)[1],
                                             Head(next_to_match)[2])) < 4)
       => /\ pc' = "failed"
          /\ error' \in {"LinAlgError", "ValueError"}
          /\ known_transforms' = known_transforms]_vars

\* an edge with 3 unique correspondences ended the run
C4_Witness ==
    /\ scans = Mirrored
    /\ pc = "failed"
    /\ error = "LinAlgError"
    /\ Resolved = {0}

\* C5: a transform is only stored when the solution of its linear system was
\* integral; a fractional solution fails instead of being rounded.
C5_FractionalSolutionFails ==
    \A n \in DOMAIN solved_from : solved_from[n].exact

\* a run ended normally although the solution of an edge was fractional
C5_Witness ==
    /\ scans = Mismatch
    /\ pc = "done"
    /\ error = "none"
    /\ \E n \in DOMAIN solved_from :
           ~solved_from[n].exact /\ solved_from[n].nmatches = 4

\* the beacons of scan n that its transform puts on a raw beacon of scan 0
LandOnScan0(n) ==
    {i \in 1..Len(scans[n + 1]) :
        VecMat(scans[n + 1][i], known_transforms[n]) \in Range(scans[1])}

\* C8: every stored transform maps the target beacons it was solved from onto
\* their source beacons in the frame of scan 0, and puts at least 12 beacons
\* of a scan that overlaps scan 0 on raw beacons of scan 0.
C8_TransformsIntoFrame0 ==
    \A n \in DOMAIN solved_from :
        /\ solved_from[n].fits
        /\ (n \in DOMAIN connections /\ 0 \in Range(connections[n]))
               => Cardinality(LandOnScan0(n)) >= 12

\* a stored transform misses the beacons it was solved from, and fewer than
\* 12 beacons of a scan next to scan 0 land on beacons of scan 0
C8_Witness ==
    /\ scans = Mismatch
    /\ pc = "traverse"
    /\ \E n \in DOMAIN solved_from :
           /\ ~solved_from[n].fits
           /\ solved_from[n].source = 0
           /\ Cardinality(LandOnScan0(n)) < 12

\* C9: scan 0 maps to the identity; an entry of the map is never changed or
\* removed; an edge to a resolved scan is only dequeued.
C9_FirstPathWins ==
    /\ [](pc \in {"traverse", "transformed", "yielded_a", "done"}
             => 0 \in Resolved /\ known_transforms[0] = Identity4)
    /\ [][\A n \in Resolved :
             n \in DOMAIN known_transforms'
             /\ known_transforms'[n] = known_transforms[n]]_vars
    /\ [][HeadIsRevisit
          => /\ known_transforms' = known_transforms
             /\ next_to_match' = Tail(next_to_match)]_vars

\* the edge (1, 0) has been dequeued and ignored, the edge (1, 2) is next
C9_Witness ==
    /\ pc = "traverse"
    /\ Resolved = {0, 1}
    /\ next_to_match = << <<1, 2>> >>

\* exactly one nonzero entry, +1 or -1, in each row and column of the 3x3 block
IsSignedPermutation(T) ==
    /\ \A i, j \in 1..3 : T[i][j] \in {-1, 0, 1}
    /\ \A i \in 1..3 : Cardinality({j \in 1..3 : T[i][j] # 0}) = 1
    /\ \A j \in 1..3 : Cardinality({i \in 1..3 : T[i][j] # 0}) = 1

\* C10: the rotation block of every stored transform is a signed permutation
\* matrix.
C10_RotationIsSignedPermutation ==
    \A n \in Resolved : IsSignedPermutation(known_transforms[n])

\* the transform stored for an edge whose unique distances pair different
\* beacons
C10_Witness ==
    /\ scans = Mismatch
    /\ 1 \in Resolved
    /\ known_transforms[1] = << <<-1, 1, 1, 0>>, <<4, -4, -1, 0>>,
                               <<6, -5, -1, 0>>, <<-35, 28, 4, 1>> >>

----------------------------------------------------------------------------
\* day22: reactor reboot by coordinate compression (SpecCubes)

\* the largest number of reboot steps of an input
MaxSteps == 2

\* the ranges begin..end a line may give for x, y and z: overlapping, nested,
\* a single plane, and one written backwards
XRanges == {<<-1, 1>>, <<0, 2>>, <<1, 1>>, <<2, 0>>}

YRanges == {<<0, 1>>, <<1, 3>>}

ZRanges == {<<-2, 0>>, <<0, 0>>}

\* the lines of an input file: "on x=-1..1,y=0..1,z=-2..0"
Lines == [onoff : {"on", "off"}, x : XRanges, y : YRanges, z : ZRanges]

\* read_reboot_steps: commands[i] is onoff == "on", coords[i] holds
\* (begin, end + 1) for x, y and z
read_commands(file) == [i \in 1..Len(file) |-> file[i].onoff = "on"]

read_coords(file) ==
    [i \in 1..Len(file) |->
        << <<file[i].x[1], file[i].x[2] + 1>>,
           <<file[i].y[1], file[i].y[2] + 1>>,
           <<file[i].z[1], file[i].z[2] + 1>> >>]

\* np.unique(values): the sorted distinct values
np_unique(values) == Ascending(values)

\* return_inverse: the index in uq of the value v
inverse(uq, v) == (CHOOSE i \in 1..Len(uq) : uq[i] = v) - 1

\* a mutant: every compressed cell counts as one cube
np_diff_unit(uq) == [i \in 1..(Len(uq) - 1) |-> 1]

\* np.diff(uq)
np_diff(uq) == [i \in 1..(Len(uq) - 1) |-> uq[i + 1] - uq[i]]

\* the indices lo:hi of an axis of length n (lo and hi are never negative)
slice(lo, hi, n) == {i \in 0..(n - 1) : lo <= i /\ i < hi}

\* the reactor after the first n passes of
\*   for command, coords in zip(commands, coords_mapped):
\*       reactor[x0:x1, y0:y1, z0:z1] = command
RECURSIVE apply_commands(_, _, _, _)
apply_commands(cmds, coords_mapped, shape, n) ==
    IF n = 0
    THEN [c \in (0..(shape[1] - 1)) \X (0..(shape[2] - 1)) \X (0..(shape[3] - 1))
             |-> FALSE]
    ELSE LET reactor == apply_commands(cmds, coords_mapped, shape, n - 1)
             coords == coords_mapped[n]
         IN  [c \in DOMAIN reactor |->
                 IF \A a \in 1..3 :
                        c[a] \in slice(coords[1][a], coords[2][a], shape[a])
                 THEN cmds[n]
                 ELSE reactor[c]]

count_active_cubes(cmds, coords) ==
    LET \* np.swapaxes(coords_list, 1, 2): (command, lower/upper, xyz)
        coords_arr ==
            [s \in 1..Len(coords) |->
                [b \in 1..2 |-> [a \in 1..3 |-> coords[s][a][b]]]]
        uq == [a \in 1..3 |->
                  np_unique({coords_arr[s][b][a] :
                                s \in 1..Len(coords), b \in 1..2})]
        coords_mapped ==
            [s \in 1..Len(coords) |->
                [b \in 1..2 |->
                    [a \in 1..3 |-> inverse(uq[a], coords_arr[s][b][a])]]]
        sizes == [a \in 1..3 |-> np_diff(uq[a])]
        shape == [a \in 1..3 |-> Len(uq[a])]
        reactor == apply_commands(cmds, coords_mapped, shape, Len(cmds))
    IN  \* (reactor[:-1, :-1, :-1] * grid_cell_sizes).sum()
        SumSeq([i \in 1..(shape[1] - 1) |->
            SumSeq([j \in 1..(shape[2] - 1) |->
                SumSeq([k \in 1..(shape[3] - 1) |->
                    IF reactor[<<i - 1, j - 1, k - 1>>]
                    THEN sizes[1][i] * sizes[2][j] * sizes[3][k]
                    ELSE 0])])])

CubesInit ==
    \E n \in 1..MaxSteps : \E file \in [1..n -> Lines] :
        /\ commands = read_commands(file)
        /\ coords_list = read_coords(file)
        /\ cubes = -1
        /\ cpc = "read"

CountActiveCubes ==
    /\ cpc = "read"
    /\ cubes' = count_active_cubes(commands, coords_list)
    /\ cpc' = "counted"
    /\ UNCHANGED <<commands, coords_list>>

InitCubes == Day19Idle /\ HashIdle /\ CubesInit

NextCubes ==
    \/ CountActiveCubes /\ UNCHANGED <<day19vars, hashvars>>

SpecCubes == InitCubes /\ [][NextCubes]_vars

\* the steps whose cuboid holds the unit cube c: begin <= c <= end on each axis
StepsOver(c) ==
    {s \in 1..Len(commands) :
        \A a \in 1..3 :
            coords_list[s][a][1] <= c[a] /\ c[a] <= coords_list[s][a][2] - 1}

\* the unit cubes any step can reach
Reach(a) ==
    LET ends == {coords_list[s][a][b] : s \in 1..Len(commands), b \in 1..2}
    IN  Min(ends)..Max(ends)

\* the cubes that are on when the steps are applied one by one to a grid that
\* is off: the last step over a cube decides
NaiveCount ==
    Cardinality({c \in Reach(1) \X Reach(2) \X Reach(3) :
                    StepsOver(c) # {} /\ commands[Max(StepsOver(c))]})

\* C7: count_active_cubes returns the number of unit cubes that are on after
\* the steps have been applied in order, cube by cube.
C7_CountIsNaiveCount == cpc = "counted" => cubes = NaiveCount

\* an "off" step has cut a part out of the cuboid an "on" step lit
C7_Witness ==
    /\ cpc = "counted"
    /\ commands = <<TRUE, FALSE>>
    /\ cubes = 14
    /\ cubes < (coords_list[1][1][2] - coords_list[1][1][1])
               * (coords_list[1][2][2] - coords_list[1][2][1])
               * (coords_list[1][3][2] - coords_list[1][3][1])

====
